---------------------------- MODULE Spec2Model ----------------------------
(***************************************************************************)
(* The parameter bridge of pyOpenMS/Param.pyx: paramToDict (lines 6-25)    *)
(* and dictToParam (lines 30-44), run by a calling script.                 *)
(*                                                                         *)
(* Text is a sequence of character codes; code 0 is the NUL character,     *)
(* which ends a char * string.  Native integers are scaled down: a C int   *)
(* has IntBits bits, a C long has IntBits bits on the 32 bit Windows build *)
(* and LongBitsLP64 bits on the 64 bit Linux build (website/index.rst      *)
(* names both platforms).  A Python integer has no width.                  *)
(***************************************************************************)
EXTENDS Integers, Sequences, FiniteSets, TLC

\* ------------------------------------------------------------- bounds
MaxHostInt == 4
MaxCalls == 2

\* ---------------------------------------------------- scaled C widths
IntBits == 2
LongBitsLP64 == 3

\* The platforms the package is built on.
Builds == {"ILP32", "LP64"}

\* ------------------------------------------------------------ values
NUL == 0
Keys == {<<1>>, <<2>>, <<1, NUL, 2>>}
Texts == {<<1>>, <<1, NUL, 2>>}
Floats == {1, 2}
HostInts == -MaxHostInt .. MaxHostInt

\* The values a host mapping can hold.  Python's int and long are both
\* "int" here; a bool is a subclass of int; "list" stands for any other type.
\* A value is a record of its type, its number and its text (0 and <<>> where
\* the type has none).
HostValues ==
    [kind : {"int"}, num : HostInts, txt : {<<>>}]
    \cup [kind : {"float"}, num : Floats, txt : {<<>>}]
    \cup [kind : {"str"}, num : {0}, txt : Texts]
    \cup [kind : {"bool"}, num : {1}, txt : {<<>>}]
    \cup [kind : {"list"}, num : {0}, txt : {<<>>}]

\* sizeof(long) of the build, in (scaled) bits.
LongBits(b) == IF b = "ILP32" THEN IntBits ELSE LongBitsLP64

MinOf(bits) == -(2 ^ (bits - 1))
MaxOf(bits) == 2 ^ (bits - 1) - 1

\* A narrowing conversion to a signed integer of the given width.
WrapTo(bits, n) == ((n - MinOf(bits)) % (2 ^ bits)) + MinOf(bits)

\* A char * read as a string: the characters before the first NUL.
RECURSIVE CStr(_)
CStr(s) ==
    IF s = <<>> \/ Head(s) = NUL THEN <<>> ELSE <<Head(s)>> \o CStr(Tail(s))

\* The tagged values a native container can hold (DataValue).
SupportedTags == {"STRING_VALUE", "INT_VALUE", "DOUBLE_VALUE"}
DataValues(b) ==
    [tag : {"INT_VALUE"}, num : MinOf(LongBits(b)) .. MaxOf(LongBits(b)), txt : {<<>>}]
    \cup [tag : {"DOUBLE_VALUE"}, num : Floats, txt : {<<>>}]
    \cup [tag : {"STRING_VALUE"}, num : {0}, txt : Texts]
    \cup [tag : {"STRING_LIST", "EMPTY_VALUE"}, num : {0}, txt : {<<>>}]

\* What an uninitialised DataValue * may point at.
GarbageValues ==
    {[tag |-> "INT_VALUE", num |-> 0, txt |-> <<>>],
     [tag |-> "EMPTY_VALUE", num |-> 0, txt |-> <<>>]}

EmptyMap == [k \in {} |-> 0]
Mappings(V) == UNION {[S -> V] : S \in SUBSET Keys}

\* The orders in which a set can be enumerated.
Orders(S) ==
    {s \in [1 .. Cardinality(S) -> S] : \A i, j \in 1 .. Cardinality(S) : s[i] = s[j] => i = j}

VARIABLES
    build,      \* the platform
    heap,       \* the Python dict objects: a reference is an index
    dd,         \* the script's host mapping (a reference; 0: none)
    cont,       \* the script's native container
    hasCont,    \* whether the script holds a container
    pc,         \* "idle", "dictToParam", "paramToDict" or "crash"
    items,      \* dictToParam: dd.items()
    idx,        \* dictToParam: position of the for loop in items
    p,          \* the Param local to the running conversion
    dv,         \* dictToParam: the DataValue * local
    live,       \* intermediate native objects allocated and not deleted
    keys,       \* paramToDict: the key list
    it,         \* paramToDict: the iterator into keys
    rv,         \* paramToDict: the result dict (a reference)
    d2p,        \* the last dictToParam call: "none", "returned"
    retParam,   \* the container dictToParam returned
    p2d,        \* the last paramToDict call: "none", "returned", "raised"
    rets,       \* the dicts paramToDict returned, in order (references)
    err,        \* the error delivered to the script
    unraisable, \* an exception was written to stderr and dropped
    calls,      \* paramToDict calls made
    mutated     \* the script changed the source or an output after a conversion

vars ==
    <<build, heap, dd, cont, hasCont, pc, items, idx, p, dv, live, keys, it, rv,
      d2p, retParam, p2d, rets, err, unraisable, calls, mutated>>


NoError == [raised |-> FALSE, msg |-> "", keyNamed |-> <<>>, typeNamed |-> ""]
Uninit == [alloc |-> FALSE]

\* ------------------------------------------------------- dictToParam

\* isinstance(value, int) or isinstance(value, long): a bool is an int.
IsInstanceInt(value) == value.kind \in {"int", "bool"}

\* <long>(value): the conversion raises OverflowError outside the C long.
FitsLong(b, n) == MinOf(LongBits(b)) <= n /\ n <= MaxOf(LongBits(b))

\* The three ifs of the loop body: the pointer dv after them, the number of
\* DataValue objects they allocated, and whether they raised.  i is the
\* position of the entry whose value a new DataValue is built from.
NewDataValue(b, value, old, i) ==
    IF IsInstanceInt(value)
    THEN IF FitsLong(b, value.num)
         THEN [ok |-> TRUE, allocs |-> 1,
               dv |-> [alloc |-> TRUE, from |-> i,
                       val |-> [tag |-> "INT_VALUE", num |-> value.num, txt |-> <<>>]]]
         ELSE [ok |-> FALSE, allocs |-> 0, dv |-> old]
    ELSE IF value.kind = "float"
    THEN [ok |-> TRUE, allocs |-> 1,
          dv |-> [alloc |-> TRUE, from |-> i,
                  val |-> [tag |-> "DOUBLE_VALUE", num |-> value.num, txt |-> <<>>]]]
    ELSE IF value.kind = "str"
    THEN [ok |-> TRUE, allocs |-> 1,
          dv |-> [alloc |-> TRUE, from |-> i,
                  val |-> [tag |-> "STRING_VALUE", num |-> 0, txt |-> CStr(value.txt)]]]
    ELSE [ok |-> TRUE, allocs |-> 0, dv |-> old]

\* temps = new string(key): the key is handed over as a char *.
NewString(key) == CStr(key)

\* Param::setValue: inserts, or overwrites the entry of an existing key.
setValue(c, k, v) == [x \in DOMAIN c \cup {k} |-> IF x = k THEN v ELSE c[x]]

\* The live intermediate objects after one pass of the loop body: the
\* DataValue objects it allocated, temps allocated and deleted.
LiveAfterIter(n, allocs) == n + allocs + 1 - 1

\* dd.items(): the entries as a list, in the dict's order.
ItemsOf(m, order) == [i \in 1 .. Len(order) |-> <<order[i], m[order[i]]>>]

CallDictToParam ==
    /\ pc = "idle" /\ dd # 0 /\ d2p = "none" /\ ~mutated
    /\ \E order \in Orders(DOMAIN heap[dd]) : items' = ItemsOf(heap[dd], order)
    /\ idx' = 1
    /\ p' = EmptyMap
    /\ dv' = Uninit
    /\ live' = 0
    /\ pc' = "dictToParam"
    /\ UNCHANGED <<build, heap, dd, cont, hasCont, keys, it, rv, d2p, retParam,
                   p2d, rets, err, unraisable, calls, mutated>>

InLoop == pc = "dictToParam" /\ idx <= Len(items)
CurKey == items[idx][1]
CurValue == items[idx][2]
CurConv == NewDataValue(build, CurValue, dv, idx)

\* One pass of the loop body, dv pointing at a DataValue.
DictToParamIter ==
    /\ InLoop /\ CurConv.ok /\ CurConv.dv.alloc
    /\ p' = setValue(p, NewString(CurKey), CurConv.dv.val)
    /\ dv' = CurConv.dv
    /\ live' = LiveAfterIter(live, CurConv.allocs)
    /\ idx' = idx + 1
    /\ UNCHANGED <<build, heap, dd, cont, hasCont, pc, items, keys, it, rv, d2p,
                   retParam, p2d, rets, err, unraisable, calls, mutated>>

\* One pass of the loop body with dv never assigned: deref(dv) reads an
\* uninitialised pointer.  The process dies, or some value is stored.
DictToParamWildDeref ==
    /\ InLoop /\ CurConv.ok /\ ~CurConv.dv.alloc
    /\ \/ /\ pc' = "crash"
          /\ UNCHANGED <<p, idx>>
       \/ /\ \E g \in GarbageValues : p' = setValue(p, NewString(CurKey), g)
          /\ idx' = idx + 1
          /\ pc' = pc
    /\ live' = LiveAfterIter(live, CurConv.allocs)
    /\ UNCHANGED <<build, heap, dd, cont, hasCont, items, dv, keys, it, rv, d2p,
                   retParam, p2d, rets, err, unraisable, calls, mutated>>

\* <long>(value) raised OverflowError.  dictToParam returns a C++ object and
\* declares no exception value: the exception is written to stderr and
\* dropped, and the call returns a default-constructed Param.
DictToParamOverflow ==
    /\ InLoop /\ ~CurConv.ok
    /\ unraisable' = TRUE
    /\ retParam' = EmptyMap
    /\ cont' = EmptyMap
    /\ hasCont' = TRUE
    /\ d2p' = "returned"
    /\ pc' = "idle"
    /\ items' = <<>> /\ idx' = 1 /\ p' = EmptyMap /\ dv' = Uninit
    /\ UNCHANGED <<build, heap, dd, live, keys, it, rv, p2d, rets, err, calls,
                   mutated>>

\* return p: the script receives the container.
DictToParamReturn ==
    /\ pc = "dictToParam" /\ idx > Len(items)
    /\ retParam' = p
    /\ cont' = p
    /\ hasCont' = TRUE
    /\ d2p' = "returned"
    /\ pc' = "idle"
    /\ items' = <<>> /\ idx' = 1 /\ p' = EmptyMap /\ dv' = Uninit
    /\ UNCHANGED <<build, heap, dd, live, keys, it, rv, p2d, rets, err,
                   unraisable, calls, mutated>>

\* ------------------------------------------------------- paramToDict

\* getKeys(p): the keys of the container as a list.
getKeys(c) == Orders(DOMAIN c)

\* A dict kept from one call to the next instead of a new one.
NewDictShared(h) ==
    IF h = <<>> THEN [heap |-> <<EmptyMap>>, ref |-> 1] ELSE [heap |-> h, ref |-> Len(h)]

\* rv = dict(): a new dict object.
NewDict(h) == [heap |-> Append(h, EmptyMap), ref |-> Len(h) + 1]

\* The integer branch casting like the real branch: <double> val.
ToHostIntAsReal(x) ==
    IF x.tag = "STRING_VALUE"
    THEN [kind |-> "str", num |-> 0, txt |-> CStr(x.txt)]
    ELSE [kind |-> "float", num |-> x.num, txt |-> <<>>]

\* The value stored for a tagged value: val.toChar() read as a char *,
\* <int> val, <double> val.
ToHost(x) ==
    IF x.tag = "STRING_VALUE"
    THEN [kind |-> "str", num |-> 0, txt |-> CStr(x.txt)]
    ELSE IF x.tag = "INT_VALUE"
    THEN [kind |-> "int", num |-> WrapTo(IntBits, x.num), txt |-> <<>>]
    ELSE [kind |-> "float", num |-> x.num, txt |-> <<>>]

\* The chain without its else branch: every tag is converted.
IsConvertedAlways(x) == x.tag = x.tag

\* The if/elif chain takes one of its three branches.
IsConverted(x) == x.tag \in SupportedTags

\* raise "not implemented !"
NotImplemented ==
    [raised |-> TRUE, msg |-> "not implemented !", keyNamed |-> <<>>, typeNamed |-> ""]

CallParamToDict ==
    /\ pc = "idle" /\ hasCont /\ calls < MaxCalls /\ ~mutated
    /\ p' = cont
    /\ keys' \in getKeys(cont)
    /\ it' = 1
    /\ heap' = NewDict(heap).heap
    /\ rv' = NewDict(heap).ref
    /\ calls' = calls + 1
    /\ p2d' = "none"
    /\ err' = NoError
    /\ pc' = "paramToDict"
    /\ UNCHANGED <<build, dd, cont, hasCont, items, idx, dv, live, d2p, retParam,
                   rets, unraisable, mutated>>

AtKey == pc = "paramToDict" /\ it <= Len(keys)
skey == keys[it]
val == p[skey]

ParamToDictIter ==
    /\ AtKey /\ IsConverted(val)
    /\ heap' = [heap EXCEPT ![rv] = setValue(@, CStr(skey), ToHost(val))]
    /\ it' = it + 1
    /\ UNCHANGED <<build, dd, cont, hasCont, pc, items, idx, p, dv, live, keys, rv,
                   d2p, retParam, p2d, rets, err, unraisable, calls, mutated>>

ParamToDictRaise ==
    /\ AtKey /\ ~IsConverted(val)
    /\ err' = NotImplemented
    /\ p2d' = "raised"
    /\ pc' = "idle"
    /\ keys' = <<>> /\ it' = 1 /\ p' = EmptyMap /\ rv' = 0
    /\ UNCHANGED <<build, heap, dd, cont, hasCont, items, idx, dv, live, d2p,
                   retParam, rets, unraisable, calls, mutated>>

ParamToDictReturn ==
    /\ pc = "paramToDict" /\ it > Len(keys)
    /\ rets' = Append(rets, rv)
    /\ p2d' = "returned"
    /\ pc' = "idle"
    /\ keys' = <<>> /\ it' = 1 /\ p' = EmptyMap /\ rv' = 0
    /\ UNCHANGED <<build, heap, dd, cont, hasCont, items, idx, dv, live, d2p,
                   retParam, err, unraisable, calls, mutated>>

\* -------------------------------------------------------- the script

\* The key the script writes when it changes an object after a conversion.
MutKey == <<2>>

\* The script changes a dict it holds: its mapping or a returned one.
MutateDict ==
    /\ pc = "idle" /\ ~mutated /\ (d2p = "returned" \/ calls > 0)
    /\ \E r \in ({dd} \ {0}) \cup {rets[i] : i \in 1 .. Len(rets)} :
         heap' = [heap EXCEPT ![r] = setValue(@, MutKey, [kind |-> "list", num |-> 0, txt |-> <<>>])]
    /\ mutated' = TRUE
    /\ UNCHANGED <<build, dd, cont, hasCont, pc, items, idx, p, dv, live, keys, it,
                   rv, d2p, retParam, p2d, rets, err, unraisable, calls>>

\* The script changes its container.
MutateContainer ==
    /\ pc = "idle" /\ ~mutated /\ hasCont /\ calls > 0
    /\ cont' = setValue(cont, MutKey, [tag |-> "EMPTY_VALUE", num |-> 0, txt |-> <<>>])
    /\ mutated' = TRUE
    /\ UNCHANGED <<build, heap, dd, hasCont, pc, items, idx, p, dv, live, keys, it,
                   rv, d2p, retParam, p2d, rets, err, unraisable, calls>>

\* ------------------------------------------------------ specification

\* The script holds a host mapping to convert, or a container that the
\* native library made.
Init ==
    /\ build \in Builds
    /\ \/ /\ \E m \in Mappings(HostValues) : heap = <<m>>
          /\ dd = 1
          /\ cont = EmptyMap
          /\ hasCont = FALSE
       \/ /\ heap = <<>>
          /\ dd = 0
          /\ cont \in Mappings(DataValues(build))
          /\ hasCont = TRUE
    /\ pc = "idle"
    /\ items = <<>>
    /\ idx = 1
    /\ p = EmptyMap
    /\ dv = Uninit
    /\ live = 0
    /\ keys = <<>>
    /\ it = 1
    /\ rv = 0
    /\ d2p = "none"
    /\ retParam = EmptyMap
    /\ p2d = "none"
    /\ rets = <<>>
    /\ err = NoError
    /\ unraisable = FALSE
    /\ calls = 0
    /\ mutated = FALSE

Next ==
    \/ CallDictToParam
    \/ DictToParamIter
    \/ DictToParamWildDeref
    \/ DictToParamOverflow
    \/ DictToParamReturn
    \/ CallParamToDict
    \/ ParamToDictIter
    \/ ParamToDictRaise
    \/ ParamToDictReturn
    \/ MutateDict
    \/ MutateContainer

Spec == Init /\ [][Next]_vars

\* ------------------------------------------------------------ claims

SupportedKinds == {"int", "float", "str"}
AllSupported(m) == \A k \in DOMAIN m : m[k].kind \in SupportedKinds
AllTagsSupported(c) == \A k \in DOMAIN c : c[k].tag \in SupportedTags
LastRet == heap[rets[Len(rets)]]
TagOfKind(kind) ==
    IF kind = "int" THEN "INT_VALUE" ELSE IF kind = "float" THEN "DOUBLE_VALUE" ELSE "STRING_VALUE"
KindOfTag(tag) ==
    IF tag = "INT_VALUE" THEN "int" ELSE IF tag = "DOUBLE_VALUE" THEN "float" ELSE "str"

\* The script converted its mapping to a container and the container back.
RoundTripDone ==
    dd # 0 /\ d2p = "returned" /\ p2d = "returned" /\ pc = "idle" /\ ~mutated

\* Every integer of the mapping fits the C long of the build: <long>(value)
\* raises nothing.
InLongRange(m) == \A k \in DOMAIN m : m[k].kind = "int" => FitsLong(build, m[k].num)

\* C1: for a mapping of text, integer and floating-point values,
\* paramToDict(dictToParam(m)) is a mapping equal to m: the same keys, and for
\* each key the same value of the same kind.  Stated here for the mappings
\* whose conversion raised no exception on the way.
C1_RoundTrip ==
    (RoundTripDone /\ AllSupported(heap[dd]) /\ ~unraisable) => LastRet = heap[dd]

\* C2: dictToParam of a mapping with a value that is not text, integer or
\* floating-point fails with an error and returns no container.
C2_Rejection ==
    (/\ dd # 0 /\ d2p = "returned" /\ calls = 0 /\ ~mutated
     /\ ~AllSupported(heap[dd]) /\ InLongRange(heap[dd]))
        => (err.raised /\ ~hasCont)

C4_Cardinality ==
    /\ (pc = "idle" /\ p2d = "returned" /\ ~mutated) => DOMAIN LastRet = DOMAIN cont
    /\ (dd # 0 /\ d2p = "returned" /\ ~mutated /\ AllSupported(heap[dd])
            /\ InLongRange(heap[dd]))
          => DOMAIN retParam = DOMAIN heap[dd]

\* C5: after a dictToParam call no intermediate native object is live.
C5_Released == (pc = "idle" /\ d2p = "returned") => live = 0

\* C6: a paramToDict call on a container holding an entry whose tag is not
\* Text, Integer or Real ends with an error and returns no mapping.
C6_NoPartialMapping ==
    (pc = "idle" /\ calls > 0 /\ ~mutated /\ ~AllTagsSupported(cont))
        => (p2d = "raised" /\ err.raised /\ rets = <<>>)

\* paramToDict raised after it had converted an entry: the dict it was
\* filling is not among the returned ones.
C6_Witness ==
    /\ p2d = "raised" /\ pc = "idle"
    /\ heap # <<>> /\ heap[Len(heap)] # EmptyMap
    /\ \A i \in 1 .. Len(rets) : rets[i] # Len(heap)

\* C7: the error of an aborted conversion names the offending key and the
\* unsupported type.
C7_ErrorNamesKeyAndType ==
    (err.raised /\ ~mutated)
        => /\ err.keyNamed \in DOMAIN cont
           /\ cont[err.keyNamed].tag \notin SupportedTags
           /\ err.typeNamed = cont[err.keyNamed].tag

Returned == {rets[i] : i \in 1 .. Len(rets)}
SameDicts(R) == \A r \in R \ {0} : heap'[r] = heap[r]

\* C8: a conversion step changes neither the script's mapping, nor its
\* container, nor a mapping returned before; every returned mapping is an
\* object of its own; a change the script makes to one object after a
\* conversion leaves the others as they are.
C8_Snapshot ==
    [][/\ (pc # "idle" \/ pc' # "idle")
            => /\ SameDicts(Returned \cup {dd})
               /\ hasCont => cont' = cont
       /\ (rets' # rets)
            => /\ rets'[Len(rets')] \notin Returned \cup {dd}
               /\ Len(rets') = Len(rets) + 1
       /\ (pc = "idle" /\ pc' = "idle")
            => /\ retParam' = retParam
               /\ \A r \in Returned \cup ({dd} \ {0}) :
                     heap'[r] # heap[r]
                        => /\ SameDicts((Returned \cup {dd}) \ {r})
                           /\ cont' = cont
               /\ cont' # cont => SameDicts(Returned \cup {dd})]_vars

\* Two conversions of the container returned, and the script then changed
\* its mapping, a returned mapping or the container.
C8_Witness == mutated /\ Len(rets) = 2 /\ dd # 0

\* C10: the tagged value a pass of dictToParam's loop inserts is built from
\* the value of the entry of that pass.
C10_ValueOfSameEntry ==
    (pc = "dictToParam" /\ idx > 1) => (dv.alloc /\ dv.from = idx - 1)

=============================================================================
